---------------------------- MODULE Spec2Model ----------------------------
(***************************************************************************)
(* Season backfill and validation pipeline of StatEdge.                    *)
(*                                                                         *)
(*   python-service/complete_season_backfill.py   ComprehensiveSeasonCollector *)
(*   python-service/emergency_backfill.py         EmergencyBackfillCollector *)
(*   python-service/services/data_collector.py    DataCollector            *)
(*   python-service/validate_complete_coverage.py SeasonDataValidator      *)
(*                                                                         *)
(* Calendar dates are day numbers counted from season_start (day 1).  A    *)
(* date string '%Y-%m-%d' is the pair <<"ymd", d>>, an ISO string with a   *)
(* time component is <<"iso", d>>, a pandas Timestamp is <<"ts", d>>.      *)
(***************************************************************************)
EXTENDS Integers, Sequences, FiniteSets, TLC

\* -------------------------------------------------------------- bounds
\* The dates of the model: season_start is day 1, the emergency backfill's
\* missing_ranges end on day NumDates, the season ends the day after.
NumDates == 11
\* Records pyb.statcast returns for an ordinary game day.
RecordsPerDay == 5
\* Records of the game day whose batch holds one record with an unparsable date.
PartialBatchSize == 10
\* Processes started (backfill runs and validation passes) in one behaviour.
MaxRuns == 2
MaxValidations == 1
\* Backfill runs a validation pass may follow.
MaxRunsValidated == 1
\* Calls of collect_single_date made on their own.
MaxCalls == 2
\* Batches stored, and records per batch, in the store's own specification.
MaxBatches == 3
MaxBatchLen == 2
\* Calls of store_statcast_data where a call may fail at batch level.
MaxRollbackBatches == 2
\* Iterations of the batch loop of collect_season_statcast in one request.
MaxIterations == 12
\* Days between date.min and the first day of the season.
DaysBeforeSeason == 3
\* Calls of settle_bet.
MaxSettles == 3

\* --------------------------------------------------- program constants
max_retries == 3
SaveEvery == 10
num_samples == 25

\* Slots for backfill processes; the sequential specification uses slot 1.
Procs == {1, 2}

\* None, and a float NaN, among the integers of a record.
NoneVal == -1
NaN == -2

season_start == 1
SeasonEndDate == NumDates + 1

\* missing_ranges: four adjoining ranges, from season_start to the end of
\* the last one.
MissingRangeEnd == NumDates

\* date.today() when a script runs: the day missing_ranges end, before the
\* end of the season.
Todays == {NumDates}

\* date.today() early in the season.
EarlyDays == {2, 3}

Min(a, b) == IF a < b THEN a ELSE b

Range(s) == {s[k] : k \in 1..Len(s)}

\* x in list
Contains(s, x) == \E k \in 1..Len(s) : s[k] = x

\* list.remove(x): drops the first occurrence.
RECURSIVE Remove(_, _)
Remove(s, x) ==
    IF s = <<>> THEN <<>>
    ELSE IF Head(s) = x THEN Tail(s)
    ELSE <<Head(s)>> \o Remove(Tail(s), x)

\* target_date.strftime('%Y-%m-%d')
DateStr(d) == <<"ymd", d>>

\* ------------------------------------------------------------ upstream
\* validate_key_players: the fixed list of key players, in dict order.
key_players == <<592450, 545361, 666176, 592518, 608369>>

OffDays == {1}
PartialDays == {4}
\* Days with a single recorded pitch (a suspended game).
SinglePitchDays == 5..SeasonEndDate
\* A day on which the last key player does not bat.
ShortLineupDays == {2}

Batter(d, k) ==
    LET n == IF d \in ShortLineupDays THEN Len(key_players) - 1 ELSE Len(key_players)
    IN  key_players[((k - 1) % n) + 1]

\* One row of the DataFrame pyb.statcast returns.  play_id is not a column
\* of the upstream data.
RawRecord(d, k, gd) ==
    [game_pk |-> 100 + d, play_id |-> NoneVal, pitch_number |-> k,
     at_bat_number |-> k, inning |-> 1, game_date |-> gd,
     batter |-> Batter(d, k), pitcher |-> 700000 + d]

\* pyb.statcast(start_dt=date_str, end_dt=date_str): the upstream events of a day.
UpstreamData(d) ==
    IF d \in OffDays THEN <<>>
    ELSE IF d \in PartialDays
         THEN [k \in 1..PartialBatchSize |->
                 RawRecord(d, k, IF k = PartialBatchSize THEN <<"junk">> ELSE <<"ts", d>>)]
    ELSE IF d \in SinglePitchDays THEN <<RawRecord(d, 1, <<"ts", d>>)>>
    ELSE [k \in 1..RecordsPerDay |-> RawRecord(d, k, <<"ts", d>>)]

RECURSIVE UpstreamRange(_, _)
UpstreamRange(a, b) ==
    IF a > b THEN <<>> ELSE UpstreamData(a) \o UpstreamRange(a + 1, b)


\* ---------------------------------------------------------- normalizer
\* store_statcast_data, the loop over statcast_json.items(): NaN and NaT
\* become None, timestamps become ISO strings (value.isoformat()), every
\* other value is kept.  Numbers are integers with None and NaN as NoneVal
\* and NaN; date values are tagged tuples.
CleanNumber(v) == IF v = NaN THEN NoneVal ELSE v

CleanDate(v) ==
    IF v[1] = "nat" THEN <<"none">>
    ELSE IF v[1] \in {"ts", "datetime"} THEN <<"iso", v[2]>>
    ELSE IF v[1] = "date" THEN <<"ymd", v[2]>>
    ELSE v

CleanRecord(row) ==
    [f \in DOMAIN row |->
        IF f = "game_date" THEN CleanDate(row[f]) ELSE CleanNumber(row[f])]

\* DataCollector._convert_to_date: a date (its day number), or None for
\* None and for a string that does not parse.
_convert_to_date(date_value) ==
    IF date_value[1] = "none" THEN NoneVal
    ELSE IF date_value[1] = "date" THEN date_value[2]
    ELSE IF date_value[1] = "datetime" THEN date_value[2]
    ELSE IF date_value[1] = "iso" THEN date_value[2]
    ELSE IF date_value[1] = "ymd" THEN date_value[2]
    ELSE IF date_value[1] = "junk" THEN NoneVal
    ELSE IF date_value[1] = "ts" THEN date_value[2]
    ELSE NoneVal

\* The value as it is, None included.
KeepValue(v) == v

\* value or 0
OrZero(v) == IF v = NoneVal \/ v = 0 THEN 0 ELSE v

\* f"{game_pk}_{play_id}_{pitch_number}_{at_bat_number}_{inning}"
PitchId(statcast_json) ==
    <<statcast_json.game_pk, OrZero(statcast_json.play_id),
      OrZero(statcast_json.pitch_number), OrZero(statcast_json.at_bat_number),
      OrZero(statcast_json.inning)>>

\* The parameters of the INSERT for one DataFrame row.
NormalizeRow(row) ==
    LET statcast_json == CleanRecord(row)
        raw_game_date == statcast_json.game_date
    IN  [game_pk |-> statcast_json.game_pk,
         pitch_id |-> PitchId(statcast_json),
         game_date |-> IF raw_game_date # <<"none">>
                       THEN _convert_to_date(raw_game_date) ELSE NoneVal,
         batter_id |-> statcast_json.batter,
         pitcher_id |-> statcast_json.pitcher,
         statcast_data |-> statcast_json]

\* --------------------------------------------------------------- store
\* A plain INSERT into a table without the unique key.
InsertNoConflict(st, r) == st \cup {r}

\* A mutant of Upsert: the conflicting row is replaced by the new one.
UpsertReplacesRow(st, r) == {old \in st : old.pitch_id # r.pitch_id} \cup {r}

\* INSERT ... ON CONFLICT (pitch_id) DO UPDATE SET statcast_data =
\* EXCLUDED.statcast_data, updated_at = NOW()
Upsert(st, r) ==
    IF \E old \in st : old.pitch_id = r.pitch_id
    THEN {IF old.pitch_id = r.pitch_id
          THEN [old EXCEPT !.statcast_data = r.statcast_data]
          ELSE old : old \in st}
    ELSE st \cup {r}

\* DataCollector.store_statcast_data: every row of df, then commit.
RECURSIVE StoreStatcastData(_, _)
StoreStatcastData(st, df) ==
    IF df = <<>> THEN st
    ELSE StoreStatcastData(Upsert(st, NormalizeRow(Head(df))), Tail(df))

\* SELECT COUNT(*) FROM statcast_pitches WHERE game_date = :target_date
CountByDate(st, d) == Cardinality({r \in st : r.game_date = d})

\* SELECT COUNT(*) ... WHERE batter_id = :player_id AND game_date >= :start_date
\* AND game_date <= :end_date
CountByEntity(st, player_id, a, b) ==
    Cardinality({r \in st : /\ r.batter_id = player_id
                            /\ r.game_date # NoneVal
                            /\ r.game_date >= a /\ r.game_date <= b})

\* ---------------------------------------------------------- validation
\* Percentages are exact fractions <<numerator, denominator>>; thresholds
\* are in tenths of a percent (99.5 is 995).
DateThreshold == 995
PlayerThreshold == 950
StatusThreshold == 950

\* (actual_records / expected_records * 100) if expected_records > 0 else 0
Completeness(actual_records, expected_records) ==
    IF expected_records > 0 THEN <<actual_records * 100, expected_records>>
    ELSE <<0, 1>>

\* completeness >= threshold, threshold in tenths of a percent
AtLeast(completeness, tenths) == completeness[1] * 10 >= tenths * completeness[2]

\* round(completeness, 2), in hundredths of a percent
Round2(completeness) ==
    (2 * completeness[1] * 100 + completeness[2]) \div (2 * completeness[2])

\* 'complete' if completeness >= t else 'incomplete' if completeness > 0 else 'missing'
StatusOf(completeness, tenths) ==
    IF AtLeast(completeness, tenths) THEN "complete"
    ELSE IF completeness[1] > 0 THEN "incomplete"
    ELSE "missing"

\* A function that ends without a return statement returns None: a dict
\* without any key of a result.
NoneDict == [none |-> TRUE]

\* "return value" inside "async for session in get_db_session(): try: ...
\* finally: break": the break in the finally clause cancels the pending
\* return (as it discards a pending exception), control leaves the loop,
\* and the function ends without a return statement.
ReturnCancelledByBreak(value) == NoneDict

\* validate_date_collection without the early return for a date that has
\* no upstream records.
ValidateDateNoEarlyReturn(st, target_date) ==
    LET expected_records == Len(UpstreamData(target_date))
        actual_records == CountByDate(st, target_date)
        completeness == Completeness(actual_records, expected_records)
    IN  ReturnCancelledByBreak(
            [date |-> DateStr(target_date),
             status |-> StatusOf(completeness, DateThreshold),
             expected_records |-> expected_records,
             actual_records |-> actual_records,
             completeness |-> Round2(completeness)])

\* ComprehensiveSeasonCollector.validate_date_collection, upstream
\* reachable.  (When the query raises, the same break discards the
\* exception, and the result is None as well.)
ValidateDateCollection(st, target_date) ==
    LET expected_data == UpstreamData(target_date) IN
    IF expected_data = <<>>
    THEN [date |-> DateStr(target_date), status |-> "no_games",
          expected_records |-> 0, actual_records |-> 0, completeness |-> 10000]
    ELSE LET expected_records == Len(expected_data)
             actual_records == CountByDate(st, target_date)
             completeness == Completeness(actual_records, expected_records)
         IN  ReturnCancelledByBreak(
                 [date |-> DateStr(target_date),
                  status |-> StatusOf(completeness, DateThreshold),
                  expected_records |-> expected_records,
                  actual_records |-> actual_records,
                  completeness |-> Round2(completeness)])

\* validation['status'] == one of statuses; raises TypeError on None.
StatusIn(validation, statuses) ==
    "status" \in DOMAIN validation /\ validation.status \in statuses

\* The dict of the except branch: it has no 'completeness' key.
ValidationError(target_date) == [date |-> DateStr(target_date), status |-> "error"]

\* ---------------------------------------------------------- checkpoint
\* The progress file: absent, truncated (opened for writing, json.dump not
\* finished: empty or a prefix of the document), or a complete document.
Absent == [kind |-> "absent"]
Truncated == [kind |-> "truncated"]
Document(p) ==
    [kind |-> "json", completed_dates |-> p.completed_dates,
     failed_dates |-> p.failed_dates]

EmptyProgress == [completed_dates |-> <<>>, failed_dates |-> <<>>]

\* The progress files a run may find when the model starts.
InitialCheckpoints ==
    {Absent,
     Document([completed_dates |-> <<DateStr(1)>>, failed_dates |-> <<DateStr(2)>>])}

\* date_str in the list `key` of a file json.load can read.
FileLists(f, key, d) == f.kind = "json" /\ Contains(f[key], DateStr(d))

\* load_progress on a file json.load can read.
LoadProgress(f) ==
    IF f.kind = "json"
    THEN [completed_dates |-> f.completed_dates, failed_dates |-> f.failed_dates]
    ELSE EmptyProgress

\* ----------------------------------------------------------------------
VARIABLES
    today,          \* date.today()
    outage,         \* "none", "upstream", "structural", "database"
    file,           \* the progress file on disk
    store,          \* the rows of statcast_pitches
    program,        \* per process slot: the script it last ran
    pc,             \* where its process stands
    season_end,     \* self.season_end
    progress,       \* the progress dict in memory
    all_dates,      \* the dates the run processes
    i,              \* the loop index of enumerate(all_dates, 1)
    retry_count,    \* collect_single_date's retry_count
    success,        \* what collect_single_date returned
    runs,           \* backfill runs started
    calls,          \* calls of the season collector's collect_single_date
    attempts,       \* fetches of the current date
    committed,      \* dates for which collect_single_date has returned True
    reached,        \* terminal outcomes of the run: completed and failed dates
    lost,           \* when the process ended: dates in progress or not in the file
    val_pc,         \* where the validation pass stands
    val_season_end, \* the validator's self.season_end
    sample_days,    \* the sampled day offsets not yet validated
    validations,    \* validate_sample_dates: the list built so far
    player_validations, \* validate_key_players: the list built so far
    report,         \* validation_report in memory: summary and issues
    report_file,    \* the report file on disk
    val_runs,       \* validation passes started
    last_df,        \* the store's own specification: the batch stored last
    batches,        \* the store's own specification: batches stored
    reingested,     \* the store's own specification: the batch stored last
                    \* was the one stored before it
    last_fail,      \* the store's own specification: which INSERT of the
                    \* batch stored last raised, and where
    exit_code,      \* per process: the exit status of the backfill process
    val_exit,       \* the exit status of the validation process
    failed_pending, \* history: the dates an ended run's file listed as
                    \* failed, and that no run has completed since
    season_pc,      \* collect_season_statcast: where the request stands
    batch_days,     \* collect_season_statcast: its batch_days parameter
    bad_date,       \* the date for which collect_statcast_data raises (0: none)
    current_date,   \* collect_season_statcast: current_date
    collect_end,    \* collect_season_statcast: end_date
    batch_count,    \* collect_season_statcast: batch_count
    iterations,     \* history: iterations of the batch loop
    attempted,      \* history: per date, the calls of collect_statcast_data
    bet_result,     \* betting service: bets.bet_result per bet
    strategies,     \* betting service: the counters of betting_strategies
    settles         \* history: calls of settle_bet

envVars == <<today, outage, file, store>>
procVars == <<program, pc, season_end, progress, all_dates, i, retry_count, success>>
histVars == <<runs, calls, attempts, committed, reached, lost>>
valVars == <<val_pc, val_season_end, sample_days, validations, player_validations,
             report, report_file, val_runs>>
auxVars == <<last_df, batches, reingested, last_fail>>
obsVars == <<exit_code, val_exit, failed_pending>>
seasonVars == <<season_pc, batch_days, bad_date, current_date, collect_end, batch_count,
                iterations, attempted>>
betVars == <<bet_result, strategies, settles>>
extVars == <<seasonVars, betVars>>
vars == <<envVars, procVars, histVars, valVars, auxVars, obsVars, extVars>>

\* Where a slot stands.  At rest: no process ("idle"), or one that has
\* ended: returned ("done"; "refused" when it returned before loading the
\* progress), raised ("crashed"), was killed or cancelled; "returned" is a
\* call of collect_single_date that has returned.
Resting == {"idle", "done", "refused", "crashed", "killed", "cancelled", "returned"}
\* A run of the emergency backfill.
Running == {"fetch", "record", "save_periodic", "write_periodic", "final_stats",
            "save_final", "write_final"}

\* collect_season_statcast: start_date and the last day of the season
\* (date(season, 3, 1) and date(season, 10, 31)), batch_days' default, and
\* date.min, below which date arithmetic raises OverflowError.
start_date == season_start
SeasonLastDate == SeasonEndDate
default_batch_days == 7
DateMin == start_date - DaysBeforeSeason

\* The betting service: the bets, the strategies and the rows of
\* bet_strategy_mapping; the counters of a strategy without bets.
BetIds == {1, 2}
StrategyIds == {1, 2}
bet_strategy_mapping == [b \in BetIds |-> IF b = 1 THEN {1, 2} ELSE {2}]
BetResults == {"win", "loss", "push", "void"}
NoBets == [total_bets |-> 0, wins |-> 0, losses |-> 0, pushes |-> 0]

NoOutcomes == [completed |-> {}, failed |-> {}]
NothingLost == [in_progress |-> {}, unsaved |-> {}]
NoReport == [validation_status |-> "none", sample_completeness |-> <<0, 1>>,
             player_completeness |-> <<0, 1>>, issues |-> <<>>]

InitFrom(files, days) ==
    /\ today \in days
    /\ outage = "none"
    /\ file \in files
    /\ store = {}
    /\ program = [w \in Procs |-> "none"]
    /\ pc = [w \in Procs |-> "idle"]
    /\ season_end = [w \in Procs |-> SeasonEndDate]
    /\ progress = [w \in Procs |-> EmptyProgress]
    /\ all_dates = [w \in Procs |-> <<>>]
    /\ i = [w \in Procs |-> 0]
    /\ retry_count = [w \in Procs |-> 0]
    /\ success = [w \in Procs |-> FALSE]
    /\ runs = 0
    /\ calls = 0
    /\ attempts = [w \in Procs |-> 0]
    /\ committed = {d \in 1..NumDates : FileLists(file, "completed_dates", d)}
    /\ reached = [w \in Procs |-> NoOutcomes]
    /\ lost = [w \in Procs |-> NothingLost]
    /\ val_pc = "idle"
    /\ val_season_end = SeasonEndDate
    /\ sample_days = <<>>
    /\ validations = <<>>
    /\ player_validations = <<>>
    /\ report = NoReport
    /\ report_file = NoReport
    /\ val_runs = 0
    /\ last_df = <<>>
    /\ batches = 0
    /\ reingested = FALSE
    /\ last_fail = <<>>
    /\ exit_code = [w \in Procs |-> NoneVal]
    /\ val_exit = NoneVal
    /\ failed_pending = {d \in 1..NumDates : FileLists(file, "failed_dates", d)}
    /\ season_pc = "idle"
    /\ batch_days = default_batch_days
    /\ bad_date = 0
    /\ current_date = start_date
    /\ collect_end = SeasonLastDate
    /\ batch_count = 0
    /\ iterations = 0
    /\ attempted = [d \in start_date..SeasonLastDate |-> 0]
    /\ bet_result = [b \in BetIds |-> "pending"]
    /\ strategies = [s \in StrategyIds |-> NoBets]
    /\ settles = 0

Init == InitFrom(InitialCheckpoints, Todays)

\* COUNT(*) ... WHERE game_date >= :start_date AND game_date <= :end_date
CountInRange(st, a, b) ==
    Cardinality({r \in st : r.game_date # NoneVal /\ r.game_date >= a /\ r.game_date <= b})

\* ComprehensiveSeasonCollector.get_current_db_stats
get_current_db_stats(st, a, b) ==
    ReturnCancelledByBreak([total_pitches |-> CountInRange(st, a, b)])

\* SeasonDataValidator.validate_overall_coverage
validate_overall_coverage(st, a, b) ==
    ReturnCancelledByBreak([total_pitches |-> CountInRange(st, a, b)])

\* stats['total_pitches']: raises TypeError on None.
Subscriptable(stats) == "total_pitches" \in DOMAIN stats

\* The exit status of the process: 0 when asyncio.run(main()) returns (no
\* script calls sys.exit), 1 for an uncaught exception, 128 + the signal
\* number for a kill, 130 for a KeyboardInterrupt.
ExitStatus(how) ==
    CASE how = "done" -> 0
      [] how = "refused" -> 0
      [] how = "crashed" -> 1
      [] how = "killed" -> 137
      [] how = "cancelled" -> 130

\* The process ends: its memory is gone.  (reached is history: it is kept
\* when the run returns, so that the file can be compared with it.)
Exit(w, how) ==
    /\ pc' = [pc EXCEPT ![w] = how]
    /\ exit_code' = [exit_code EXCEPT ![w] = ExitStatus(how)]
    /\ progress' = [progress EXCEPT ![w] = EmptyProgress]
    /\ all_dates' = [all_dates EXCEPT ![w] = <<>>]
    /\ i' = [i EXCEPT ![w] = 0]
    /\ retry_count' = [retry_count EXCEPT ![w] = 0]
    /\ success' = [success EXCEPT ![w] = FALSE]
    /\ attempts' = [attempts EXCEPT ![w] = 0]
    /\ reached' = [reached EXCEPT ![w] = IF how = "done" THEN @ ELSE NoOutcomes]

\* The dates in progress, and those whose outcome is not in the file, when
\* a process ends now.
NotInFile(w) ==
    [in_progress |->
        IF pc[w] \in {"fetch", "record"} THEN {all_dates[w][i[w]]} ELSE {},
     unsaved |->
        {d \in reached[w].completed : ~FileLists(file, "completed_dates", d)}
        \cup {d \in reached[w].failed : ~FileLists(file, "failed_dates", d)}]

\* ComprehensiveSeasonCollector() and run_comprehensive_backfill: init,
\* load_progress, get_current_db_stats and the log line after it.  In
\* get_current_db_stats the "return {...}" stands in "async for session
\* ...: try: ... finally: break": the break cancels the return (as it
\* discards an exception of the query), the function ends without a return
\* value, and db_stats['total_pitches'] raises TypeError.  When the file is
\* truncated json.load raises before that.  No date is ever scheduled.
Start(w) ==
    /\ pc[w] \in Resting
    /\ val_runs = 0
    /\ runs < MaxRuns
    /\ runs' = runs + 1
    /\ program' = [program EXCEPT ![w] = "complete_season_backfill"]
    /\ season_end' = [season_end EXCEPT ![w] = Min(SeasonEndDate, today)]
    /\ lost' = [lost EXCEPT ![w] = NothingLost]
    /\ \/ file = Truncated
       \/ ~Subscriptable(get_current_db_stats(store, season_start, season_end'[w]))
    /\ Exit(w, "crashed")
    /\ UNCHANGED <<envVars, calls, committed, valVars, auxVars, val_exit, failed_pending, extVars>>

\* EmergencyBackfillCollector.run_emergency_backfill, the dates of
\* missing_ranges that progress does not list as complete.
RECURSIVE MissingDates(_, _, _)
MissingDates(current, end_date, p) ==
    IF current <= end_date
    THEN (IF ~Contains(p.completed_dates, DateStr(current))
          THEN <<current>> ELSE <<>>)
         \o MissingDates(current + 1, end_date, p)
    ELSE <<>>

\* EmergencyBackfillCollector() and run_emergency_backfill up to the for
\* loop: get_db_connection (None when the database is unreachable: the run
\* returns False), get_current_load_progress (json.load raises on
\* a truncated file), all_missing_dates.
StartEmergency(w) ==
    /\ pc[w] \in Resting
    /\ val_runs = 0
    /\ runs < MaxRuns
    /\ runs' = runs + 1
    /\ program' = [program EXCEPT ![w] = "emergency_backfill"]
    /\ lost' = [lost EXCEPT ![w] = NothingLost]
    /\ IF outage = "database"
       THEN Exit(w, "refused")
       ELSE IF file = Truncated
       THEN Exit(w, "crashed")
       ELSE LET p == LoadProgress(file)
                dates == MissingDates(season_start, MissingRangeEnd, p)
            IN  /\ progress' = [progress EXCEPT ![w] = p]
                /\ all_dates' = [all_dates EXCEPT ![w] = dates]
                /\ i' = [i EXCEPT ![w] = IF dates = <<>> THEN 0 ELSE 1]
                /\ retry_count' = [retry_count EXCEPT ![w] = 0]
                /\ success' = [success EXCEPT ![w] = FALSE]
                /\ attempts' = [attempts EXCEPT ![w] = 0]
                /\ reached' = [reached EXCEPT ![w] = NoOutcomes]
                /\ exit_code' = [exit_code EXCEPT ![w] = NoneVal]
                /\ pc' = [pc EXCEPT ![w] = IF dates = <<>> THEN "final_stats" ELSE "fetch"]
    /\ UNCHANGED <<envVars, season_end, calls, committed, valVars, auxVars, val_exit,
                   failed_pending, extVars>>

\* pyb.statcast(start_dt, end_dt) raises, whatever keeps the source from
\* answering: the callers catch Exception and tell no kinds apart.
UpstreamRaises(down) == down \in {"upstream", "structural"}

TargetDate(w) == all_dates[w][i[w]]

\* EmergencyBackfillCollector.collect_single_date: pyb.statcast, then
\* store_statcast_batch.  True for an empty result and when records were
\* stored; False when pyb.statcast raises, and when the connection is lost
\* (every INSERT raises and is skipped, the commit raises).
CollectSingleDate(w) ==
    /\ pc[w] = "fetch"
    /\ attempts' = [attempts EXCEPT ![w] = @ + 1]
    /\ LET d == TargetDate(w)
           data == UpstreamData(d)
       IN  IF UpstreamRaises(outage) \/ (outage = "database" /\ data # <<>>)
           THEN /\ success' = [success EXCEPT ![w] = FALSE]
                /\ UNCHANGED <<store, committed, failed_pending>>
           ELSE /\ store' = StoreStatcastData(store, data)
                /\ success' = [success EXCEPT ![w] = TRUE]
                /\ committed' = committed \cup {d}
                /\ failed_pending' = failed_pending \ {d}
    /\ pc' = [pc EXCEPT ![w] = "record"]
    /\ UNCHANGED <<today, outage, file, season_end, program, progress, all_dates, i, retry_count,
                   runs, calls, reached, lost, valVars, auxVars, exit_code, val_exit, extVars>>

\* A mutant of RecordProgress: a date that succeeds stays in failed_dates,
\* and a date that fails is appended even when it is listed already.
RecordProgressKeepsFailed(p, date_str, ok) ==
    IF ok
    THEN [completed_dates |-> Append(p.completed_dates, date_str),
          failed_dates |-> p.failed_dates]
    ELSE [completed_dates |-> p.completed_dates,
          failed_dates |-> Append(p.failed_dates, date_str)]

\* The loop body after collect_single_date: if success: ... else: ...
RecordProgress(p, date_str, ok) ==
    IF ok
    THEN [completed_dates |-> Append(p.completed_dates, date_str),
          failed_dates |-> IF Contains(p.failed_dates, date_str)
                           THEN Remove(p.failed_dates, date_str)
                           ELSE p.failed_dates]
    ELSE [completed_dates |-> p.completed_dates,
          failed_dates |-> IF ~Contains(p.failed_dates, date_str)
                           THEN Append(p.failed_dates, date_str)
                           ELSE p.failed_dates]

SaveNever(idx) == FALSE

\* if i % 10 == 0
SaveDue(idx) == idx % SaveEvery = 0

\* The for loop moves to the next date, or ends.
NextDate(w) ==
    IF i[w] < Len(all_dates[w])
    THEN /\ i' = [i EXCEPT ![w] = @ + 1]
         /\ attempts' = [attempts EXCEPT ![w] = 0]
         /\ pc' = [pc EXCEPT ![w] = "fetch"]
    ELSE /\ pc' = [pc EXCEPT ![w] = "final_stats"]
         /\ UNCHANGED <<i, attempts>>

\* run_emergency_backfill, the loop body after collect_single_date.
RecordOutcome(w) ==
    /\ pc[w] = "record"
    /\ progress' = [progress EXCEPT ![w] =
                        RecordProgress(@, DateStr(TargetDate(w)), success[w])]
    /\ reached' = [reached EXCEPT ![w] =
                        IF success[w]
                        THEN [@ EXCEPT !.completed = @ \cup {TargetDate(w)}]
                        ELSE [@ EXCEPT !.failed = @ \cup {TargetDate(w)}]]
    /\ IF SaveDue(i[w])
       THEN /\ pc' = [pc EXCEPT ![w] = "save_periodic"]
            /\ UNCHANGED <<i, attempts>>
       ELSE NextDate(w)
    /\ UNCHANGED <<envVars, season_end, program, all_dates, retry_count, success, runs, calls,
                   committed, lost, valVars, auxVars, obsVars, extVars>>

\* save_progress: open(self.progress_file, 'w') truncates the file.
SaveOpen(w) ==
    /\ pc[w] \in {"save_periodic", "save_final"}
    /\ file' = Truncated
    /\ pc' = [pc EXCEPT ![w] = IF pc[w] = "save_periodic" THEN "write_periodic"
                                                           ELSE "write_final"]
    /\ UNCHANGED <<today, outage, store, season_end, program, progress, all_dates, i,
                   retry_count, success, histVars, valVars, auxVars, obsVars, extVars>>

\* save_progress: json.dump and the close of the file.  After a periodic
\* save get_current_db_stats(conn) follows, which raises on a lost
\* connection; after the final save the run returns failed == 0.
SaveWrite(w) ==
    /\ pc[w] \in {"write_periodic", "write_final"}
    /\ file' = Document(progress[w])
    /\ IF pc[w] = "write_periodic"
       THEN IF outage = "database"
            THEN Exit(w, "crashed") /\ UNCHANGED failed_pending
            ELSE /\ NextDate(w)
                 /\ UNCHANGED <<progress, all_dates, retry_count, success, reached,
                                exit_code, failed_pending>>
       ELSE /\ Exit(w, "done")
            /\ failed_pending' = failed_pending \cup reached[w].failed
    /\ UNCHANGED <<today, outage, store, season_end, program, runs, calls, committed, lost,
                   valVars, auxVars, val_exit, extVars>>

\* run_emergency_backfill after the loop: final_stats =
\* get_current_db_stats(conn), which raises on a lost connection, before
\* the final save_progress.
FinalStats(w) ==
    /\ pc[w] = "final_stats"
    /\ IF outage = "database"
       THEN /\ lost' = [lost EXCEPT ![w] = NotInFile(w)]
            /\ Exit(w, "crashed")
       ELSE /\ pc' = [pc EXCEPT ![w] = "save_final"]
            /\ UNCHANGED <<lost, progress, all_dates, i, retry_count, success, attempts,
                           reached, exit_code>>
    /\ UNCHANGED <<envVars, season_end, program, runs, calls, committed, valVars, auxVars,
                   val_exit, failed_pending, extVars>>

\* The process is killed (SIGKILL, power loss).
Kill(w) ==
    /\ pc[w] \in Running
    /\ lost' = [lost EXCEPT ![w] = NotInFile(w)]
    /\ Exit(w, "killed")
    /\ UNCHANGED <<envVars, season_end, program, runs, calls, committed, valVars, auxVars,
                   val_exit, failed_pending, extVars>>

\* The process is cancelled (SIGINT, SIGTERM): no script handles the
\* signal, and except Exception does not catch KeyboardInterrupt.
Cancel(w) ==
    /\ pc[w] \in Running
    /\ lost' = [lost EXCEPT ![w] = NotInFile(w)]
    /\ Exit(w, "cancelled")
    /\ UNCHANGED <<envVars, season_end, program, runs, calls, committed, valVars, auxVars,
                   val_exit, failed_pending, extVars>>

\* ------------------------- collect_single_date of the season collector
\* ComprehensiveSeasonCollector.collect_single_date(target_date) called on
\* its own, as run_comprehensive_backfill would call it for a date of the
\* season.
CallCollectSingleDate(w) ==
    /\ pc[w] \in Resting
    /\ val_runs = 0
    /\ calls < MaxCalls
    /\ calls' = calls + 1
    /\ program' = [program EXCEPT ![w] = "collect_single_date"]
    /\ season_end' = [season_end EXCEPT ![w] = Min(SeasonEndDate, today)]
    /\ \E d \in season_start..season_end'[w] :
          all_dates' = [all_dates EXCEPT ![w] = <<d>>]
    /\ i' = [i EXCEPT ![w] = 1]
    /\ retry_count' = [retry_count EXCEPT ![w] = 0]
    /\ attempts' = [attempts EXCEPT ![w] = 0]
    /\ success' = [success EXCEPT ![w] = FALSE]
    /\ pc' = [pc EXCEPT ![w] = "collect"]
    /\ UNCHANGED <<envVars, progress, runs, committed, reached, lost, valVars,
                   auxVars, obsVars, extVars>>

RetryAllowedOnceMore(rc) == rc <= max_retries

\* if retry_count < max_retries
RetryAllowed(rc) == rc < max_retries

\* collect_single_date after a failed attempt (the else branch of the
\* validation check and the except branch): retry, or return False.
AfterFailedAttempt(w) ==
    IF RetryAllowed(retry_count[w])
    THEN /\ retry_count' = [retry_count EXCEPT ![w] = @ + 1]
         /\ pc' = [pc EXCEPT ![w] = "collect"]
         /\ UNCHANGED success
    ELSE /\ success' = [success EXCEPT ![w] = FALSE]
         /\ pc' = [pc EXCEPT ![w] = "returned"]
         /\ UNCHANGED retry_count

\* collect_single_date up to the validation: collector.collect_statcast_data.
CollectStatcast(w) ==
    /\ pc[w] = "collect"
    /\ attempts' = [attempts EXCEPT ![w] = @ + 1]
    /\ LET statcast_data == UpstreamData(TargetDate(w)) IN
       IF UpstreamRaises(outage)
       THEN \* pyb.statcast raises: the except branch
            /\ AfterFailedAttempt(w)
            /\ UNCHANGED store
       ELSE \* with the database unreachable every INSERT raises and is
            \* skipped, and the function returns normally
            /\ store' = IF outage = "database" THEN store
                        ELSE StoreStatcastData(store, statcast_data)
            /\ pc' = [pc EXCEPT ![w] = "validate"]
            /\ UNCHANGED <<retry_count, success>>
    /\ UNCHANGED <<today, outage, file, season_end, program, progress, all_dates, i,
                   runs, calls, committed, reached, lost, valVars, auxVars, obsVars, extVars>>

\* collect_single_date from validate_date_collection on.  When pyb.statcast
\* raises in the validation the result is the error dict; it has no
\* 'completeness', the warning raises KeyError and the except branch
\* handles it.  A None result makes validation['status'] raise TypeError,
\* handled by the same except branch.
ValidateDate(w) ==
    /\ pc[w] = "validate"
    /\ LET d == TargetDate(w)
           validation == IF UpstreamRaises(outage) THEN ValidationError(d)
                         ELSE ValidateDateCollection(store, d)
       IN  IF StatusIn(validation, {"complete", "no_games"})
           THEN /\ success' = [success EXCEPT ![w] = TRUE]
                /\ pc' = [pc EXCEPT ![w] = "returned"]
                /\ UNCHANGED retry_count
           ELSE AfterFailedAttempt(w)
    /\ UNCHANGED <<envVars, season_end, program, progress, all_dates, i, runs, calls, attempts,
                   committed, reached, lost, valVars, auxVars, obsVars, extVars>>

\* The upstream source or the database becomes unreachable; an outage
\* outlasts the run it begins in.  The upstream source is unreachable for a
\* while ("upstream") or for a reason no retry cures ("structural").
OutageBegins ==
    /\ outage = "none"
    /\ \E kind \in {"upstream", "structural", "database"} : outage' = kind
    /\ UNCHANGED <<today, file, store, procVars, histVars, valVars, auxVars, obsVars, extVars>>

OutageEnds ==
    /\ outage # "none"
    /\ \A w \in Procs : pc[w] \in Resting
    /\ outage' = "none"
    /\ UNCHANGED <<today, file, store, procVars, histVars, valVars, auxVars, obsVars, extVars>>

\* ----------------------------------------------------------- validator
\* random.sample(range(total_days), min(num_samples, total_days)): the
\* orders the model draws, the first and the last days of the season.
SampleOrders(total_days) ==
    LET n == Min(num_samples, total_days) IN
    IF total_days <= 0 THEN {<<>>}
    ELSE {[k \in 1..n |-> k - 1], [k \in 1..n |-> total_days - k]}

\* SeasonDataValidator(2025), validate_overall_coverage, and the sample of
\* validate_sample_dates.  The validation passes of a behaviour follow its
\* backfill runs: one begins when no run is in progress, after a run
\* returned or before the first one, and no run starts after it.
ValidationStart ==
    /\ val_pc \in {"idle", "done", "crashed"}
    /\ \A w \in Procs : pc[w] \in {"idle", "done", "refused", "crashed", "returned"}
    /\ runs <= MaxRunsValidated
    /\ val_runs < MaxValidations
    /\ val_runs' = val_runs + 1
    /\ val_season_end' = Min(SeasonEndDate, today)
    /\ validations' = <<>>
    /\ player_validations' = <<>>
    /\ report' = NoReport
    /\ val_exit' = NoneVal
    /\ sample_days' \in SampleOrders(val_season_end' - season_start + 1)
    /\ val_pc' = "dates"
    /\ UNCHANGED <<envVars, procVars, histVars, auxVars, exit_code, failed_pending,
                   report_file, extVars>>

\* The query of a validation raises inside "async for session ...: try: ...
\* finally: break": the break discards the exception, and the statements
\* after the query, the append of the result among them, are not run.
ResultOmitted(down) == down = "database"

\* validate_sample_dates, the body of the loop for one sampled date whose
\* result is appended.
SampleDateResult(st, target_date, down) ==
    LET date_str == DateStr(target_date)
        expected_data == UpstreamData(target_date)
    IN  IF UpstreamRaises(down) THEN [date |-> date_str, status |-> "error"]
        ELSE IF expected_data = <<>>
        THEN [date |-> date_str, status |-> "no_games", completeness |-> 10000]
        ELSE LET expected_records == Len(expected_data)
                 actual_records == CountByDate(st, target_date)
                 completeness == Completeness(actual_records, expected_records)
                 validation ==
                     [date |-> date_str,
                      expected_records |-> expected_records,
                      actual_records |-> actual_records,
                      completeness |-> Round2(completeness),
                      status |-> StatusOf(completeness, DateThreshold)]
             IN  IF ~AtLeast(completeness, DateThreshold)
                 THEN validation @@ [issue |-> expected_records - actual_records]
                 ELSE validation

\* validate_sample_dates: one result per sampled date, in sample order.
RECURSIVE SampleDateResults(_, _, _)
SampleDateResults(st, days, down) ==
    IF days = <<>> THEN <<>>
    ELSE (IF ResultOmitted(down) /\ UpstreamData(season_start + Head(days)) # <<>>
          THEN <<>>
          ELSE <<SampleDateResult(st, season_start + Head(days), down)>>)
         \o SampleDateResults(st, Tail(days), down)

ValidateSampleDates ==
    /\ val_pc = "dates"
    /\ validations' = SampleDateResults(store, sample_days, outage)
    /\ sample_days' = <<>>
    /\ val_pc' = "players"
    /\ UNCHANGED <<envVars, procVars, histVars, auxVars, obsVars, val_season_end, player_validations,
                   report, report_file, val_runs, extVars>>

RECURSIVE CountBatter(_, _)
CountBatter(df, player_id) ==
    IF df = <<>> THEN 0
    ELSE (IF Head(df).batter = player_id THEN 1 ELSE 0) + CountBatter(Tail(df), player_id)

\* validate_key_players, the body of the loop for one player whose result
\* is appended.
KeyPlayerResult(st, player_id, a, b, down) ==
    IF UpstreamRaises(down) THEN [player_id |-> player_id, status |-> "error"]
    ELSE LET expected_data == UpstreamRange(a, b)
             expected_records ==
                 IF expected_data # <<>> THEN CountBatter(expected_data, player_id) ELSE 0
             actual_records == CountByEntity(st, player_id, a, b)
             completeness == Completeness(actual_records, expected_records)
             validation ==
                 [player_id |-> player_id,
                  expected_records |-> expected_records,
                  actual_records |-> actual_records,
                  completeness |-> Round2(completeness),
                  status |-> StatusOf(completeness, PlayerThreshold)]
         IN  IF ~AtLeast(completeness, PlayerThreshold)
             THEN validation @@ [issue |-> expected_records - actual_records]
             ELSE validation

\* validate_key_players: the results of the key players, in dict order.
RECURSIVE KeyPlayerResults(_, _, _, _, _)
KeyPlayerResults(st, players, a, b, down) ==
    IF players = <<>> THEN <<>>
    ELSE (IF ResultOmitted(down) THEN <<>>
          ELSE <<KeyPlayerResult(st, Head(players), a, b, down)>>)
         \o KeyPlayerResults(st, Tail(players), a, b, down)

ValidateKeyPlayers ==
    /\ val_pc = "players"
    /\ player_validations' =
           KeyPlayerResults(store, key_players, season_start, val_season_end, outage)
    /\ val_pc' = "report"
    /\ UNCHANGED <<envVars, procVars, histVars, auxVars, obsVars, val_season_end, sample_days,
                   validations, report, report_file, val_runs, extVars>>

\* sum(1 for v in results if v.get('status') == 'complete')
RECURSIVE CountComplete(_)
CountComplete(results) ==
    IF results = <<>> THEN 0
    ELSE (IF Head(results).status = "complete" THEN 1 ELSE 0) + CountComplete(Tail(results))

\* (complete / len(results) * 100) if results else 0
ShareComplete(results) ==
    IF results # <<>> THEN <<CountComplete(results) * 100, Len(results)>> ELSE <<0, 1>>

\* min(sample_completeness, player_completeness)
MinPct(x, y) == IF x[1] * y[2] <= y[1] * x[2] THEN x ELSE y

\* 'COMPLETE' if overall_completeness >= 95.0 else 'INCOMPLETE'
ValidationStatus(sample_completeness, player_completeness) ==
    IF AtLeast(MinPct(sample_completeness, player_completeness), StatusThreshold)
    THEN "COMPLETE" ELSE "INCOMPLETE"

\* The issue text of a result: its 'issue', else its 'error', else 'Unknown issue'.
IssueOf(v) ==
    IF "issue" \in DOMAIN v THEN <<"Missing", v.issue>>
    ELSE IF v.status = "error" THEN <<"error">>
    ELSE <<"Unknown issue">>

RECURSIVE DateIssues(_)
DateIssues(results) ==
    IF results = <<>> THEN <<>>
    ELSE (IF Head(results).status \notin {"complete", "no_games"}
          THEN <<<<"Date", Head(results).date, IssueOf(Head(results))>>>> ELSE <<>>)
         \o DateIssues(Tail(results))

RECURSIVE PlayerIssues(_)
PlayerIssues(results) ==
    IF results = <<>> THEN <<>>
    ELSE (IF Head(results).status # "complete"
          THEN <<<<"Player", Head(results).player_id, IssueOf(Head(results))>>>> ELSE <<>>)
         \o PlayerIssues(Tail(results))

\* run_complete_validation after both lists are built: the summary and the
\* issues are put into validation_report, then the final log lines and the
\* report file.  overall_stats is what validate_overall_coverage returned
\* at the start of the pass (the store has not changed since); the log
\* line that subscripts it raises TypeError when it is None, before the
\* report file is opened.
FinishValidation ==
    /\ val_pc = "report"
    /\ LET sample_completeness == ShareComplete(validations)
           player_completeness == ShareComplete(player_validations)
       IN  report' = [validation_status |->
                          ValidationStatus(sample_completeness, player_completeness),
                      sample_completeness |-> sample_completeness,
                      player_completeness |-> player_completeness,
                      issues |-> DateIssues(validations)
                                 \o PlayerIssues(player_validations)]
    /\ LET overall_stats == validate_overall_coverage(store, season_start, val_season_end)
       IN  IF Subscriptable(overall_stats)
           THEN /\ report_file' = report'
                /\ val_pc' = "done"
                /\ val_exit' = ExitStatus("done")
           ELSE /\ val_pc' = "crashed"
                /\ val_exit' = ExitStatus("crashed")
                /\ UNCHANGED report_file
    /\ UNCHANGED <<envVars, procVars, histVars, auxVars, exit_code, failed_pending,
                   val_season_end, sample_days, validations, player_validations, val_runs, extVars>>

Validator ==
    \/ ValidationStart
    \/ ValidateSampleDates
    \/ ValidateKeyPlayers
    \/ FinishValidation

\* A run of the season backfill, or of the emergency backfill.
Backfill(w) ==
    \/ Start(w)
    \/ StartEmergency(w)
    \/ CollectSingleDate(w)
    \/ RecordOutcome(w)
    \/ SaveOpen(w)
    \/ SaveWrite(w)
    \/ FinalStats(w)
    \/ Kill(w)
    \/ Cancel(w)

Next ==
    \/ Backfill(1)
    \/ Validator
    \/ OutageBegins
    \/ OutageEnds

Spec == Init /\ [][Next]_vars

\* collect_single_date of the season collector, called on its own at any
\* time of the season, and the validation passes.
InitCollect == InitFrom({Absent}, EarlyDays \cup Todays)

NextCollect ==
    \/ CallCollectSingleDate(1)
    \/ CollectStatcast(1)
    \/ ValidateDate(1)
    \/ Validator
    \/ OutageBegins
    \/ OutageEnds

SpecCollect == InitCollect /\ [][NextCollect]_vars

\* ------------------------------------------------------------ properties

\* ------------------------------------------- the store's own specification
\* Rows of one game: two whose pitch_number is NaN and 0 (the same pitch_id,
\* since None or 0 is 0) on different dates and with different batters, and
\* two of pitch 1, one with a date string that does not parse.
StoreRows ==
    {[RawRecord(1, 1, <<"ts", 1>>) EXCEPT !.pitch_number = NaN],
     [RawRecord(1, 1, <<"date", 2>>) EXCEPT !.pitch_number = 0,
                                            !.batter = key_players[2]],
     RawRecord(1, 1, <<"ts", 1>>),
     RawRecord(1, 1, <<"junk">>)}

\* The DataFrames of at most n rows.
RECURSIVE BatchesUpTo(_)
BatchesUpTo(n) ==
    IF n = 0 THEN {<<>>}
    ELSE BatchesUpTo(n - 1)
         \cup {Append(df, row) : df \in {b \in BatchesUpTo(n - 1) : Len(b) = n - 1},
                                 row \in StoreRows}

InitStore == Init /\ today = NumDates /\ file = Absent

\* DataCollector.store_statcast_data(df) on its own, as collect_statcast_data
\* calls it for any caller: every row is upserted, then the commit.
StoreBatch ==
    /\ batches < MaxBatches
    /\ \E df \in BatchesUpTo(MaxBatchLen) :
          /\ store' = StoreStatcastData(store, df)
          /\ reingested' = (batches > 0 /\ df = last_df)
          /\ last_df' = df
    /\ batches' = batches + 1
    /\ UNCHANGED <<today, outage, file, procVars, histVars, valVars, last_fail, obsVars, extVars>>

NextStore == StoreBatch

SpecStore == InitStore /\ [][NextStore]_vars

\* C3: after any ingestion no two stored rows share a pitch_id, and
\* ingesting the batch that was ingested last a second time leaves the
\* number of rows, and the number of rows of every date, unchanged.
C3_IdempotentUpsert ==
    [][ /\ \A r1 \in store', r2 \in store' : r1.pitch_id = r2.pitch_id => r1 = r2
        /\ reingested' =>
              /\ Cardinality(store') = Cardinality(store)
              /\ \A d \in 1..NumDates : CountByDate(store', d) = CountByDate(store, d)
      ]_vars

\* A batch of two rows with the same pitch_id was ingested twice in a row.
C3_Witness ==
    /\ reingested
    /\ Len(last_df) = 2
    /\ PitchId(CleanRecord(last_df[1])) = PitchId(CleanRecord(last_df[2]))
    /\ last_df[1] # last_df[2]

\* A field of the raw record, 0 when it is absent (None or NaN).
DefaultZero(v) == IF v \in {NoneVal, NaN} THEN 0 ELSE v

\* The five fields of a raw record that the claim names.
FiveFields(row) ==
    <<row.game_pk, DefaultZero(row.play_id), DefaultZero(row.pitch_number),
      DefaultZero(row.at_bat_number), DefaultZero(row.inning)>>

\* C19: the natural key of a raw record is its game identifier, play
\* identifier, pitch number, at-bat number and inning, the last four 0 when
\* absent: after a batch is stored every row of the batch is in the store
\* under exactly that key, whatever its other fields are, and storing the
\* same batch a second time yields the same keys.
C19_NaturalKeyDeterminism ==
    [][ /\ \A k \in 1..Len(last_df') :
              /\ NormalizeRow(last_df'[k]).pitch_id = FiveFields(last_df'[k])
              /\ \E r \in store' : r.pitch_id = FiveFields(last_df'[k])
        /\ \A r \in store', k \in 1..Len(last_df') :
              FiveFields(r.statcast_data) = FiveFields(last_df'[k])
                  => r.pitch_id = NormalizeRow(last_df'[k]).pitch_id
        /\ reingested' =>
              {r.pitch_id : r \in store'} = {r.pitch_id : r \in store} ]_vars

\* A batch with a row whose pitch_number is NaN has been stored twice in a
\* row, and the row is in the store under the key with 0 in its place.
C19_Witness ==
    /\ reingested
    /\ \E k \in 1..Len(last_df) : last_df[k].pitch_number = NaN
    /\ \E r \in store : r.statcast_data.pitch_number = NoneVal /\ r.pitch_id[3] = 0

\* ------------------------------------- the store with a failing INSERT
\* Where the INSERT of a row raises: "client", before the statement reaches
\* the server (json.dumps, the encoding of an argument); "server", the
\* statement is rejected by the server, which aborts the transaction.
FailureKinds == {"client", "server"}

\* The for loop of store_statcast_data from row n on, in one transaction:
\* tx.rows are the rows the transaction sees, tx.aborted says that the
\* server has aborted it.  The INSERT of row fail[1] raises (fail = <<>>:
\* none does); in an aborted transaction every further INSERT raises too.
\* "except Exception as record_error: continue" skips the row either way.
RECURSIVE InsertRows(_, _, _, _)
InsertRows(tx, df, n, fail) ==
    IF n > Len(df) THEN tx
    ELSE IF tx.aborted THEN InsertRows(tx, df, n + 1, fail)
    ELSE IF fail # <<>> /\ fail[1] = n
         THEN InsertRows([tx EXCEPT !.aborted = (fail[2] = "server")], df, n + 1, fail)
    ELSE InsertRows([tx EXCEPT !.rows = Upsert(tx.rows, NormalizeRow(df[n]))],
                    df, n + 1, fail)

\* await session.commit(): the COMMIT of an aborted transaction is a
\* ROLLBACK, and it raises nothing.
Commit(st, tx) == IF tx.aborted THEN st ELSE tx.rows

\* Where store_statcast_data raises outside the per-record try: "prepare",
\* while row n is turned into the statement's arguments (row.to_dict, the
\* NaN and timestamp conversions, _convert_to_date), before the inner try is
\* entered; "commit", in session.commit() after the loop, the server not
\* having committed.
BatchFailureKinds == {"prepare", "commit"}

\* A mutant of Rollback: what the transaction wrote stays in the store.
RollbackKeepsWritten(st, tx) == tx.rows

\* "except Exception as e: await session.rollback()" (conn.rollback() in
\* store_statcast_batch): everything the transaction wrote is discarded.
Rollback(st, tx) == st

\* DataCollector.store_statcast_data(df) when the INSERT of one row raises,
\* or when the function raises at batch level: at fail[1] the rows before it
\* have been written in the transaction, and the outer except rolls back.
StoreStatcastDataFailing(st, df, fail) ==
    IF fail # <<>> /\ fail[2] \in BatchFailureKinds
    THEN Rollback(st, InsertRows([rows |-> st, aborted |-> FALSE],
                                 SubSeq(df, 1, fail[1] - 1), 1, <<>>))
    ELSE Commit(st, InsertRows([rows |-> st, aborted |-> FALSE], df, 1, fail))


StoreBatchTx ==
    /\ batches < MaxBatches
    /\ \E df \in BatchesUpTo(MaxBatchLen) :
          \E fail \in {<<>>} \cup ((1..Len(df)) \X FailureKinds) :
              /\ store' = StoreStatcastDataFailing(store, df, fail)
              /\ last_df' = df
              /\ last_fail' = fail
    /\ reingested' = FALSE
    /\ batches' = batches + 1
    /\ UNCHANGED <<today, outage, file, procVars, histVars, valVars, obsVars, extVars>>

NextTx == StoreBatchTx

SpecTx == InitStore /\ [][NextTx]_vars

\* C20: an event that fails to store does not abort its batch: it is
\* skipped, every other event of the batch is written, and the batch is
\* committed.
C20_FailedEventSkipped ==
    [][last_fail' # <<>> =>
          \A k \in 1..Len(last_df') :
              k # last_fail'[1] =>
                  \E r \in store' :
                      /\ r.pitch_id = NormalizeRow(last_df'[k]).pitch_id
                      /\ \/ r.statcast_data = NormalizeRow(last_df'[k]).statcast_data
                         \/ \E j \in (k + 1)..Len(last_df') :
                               /\ j # last_fail'[1]
                               /\ r.statcast_data = NormalizeRow(last_df'[j]).statcast_data]_vars

\* What holds of the failing INSERT: when it raises on the client side the
\* row is skipped and the rest of the batch is stored and committed.
ClientFailureSkipsOneEvent ==
    [][(last_fail' # <<>> /\ last_fail'[2] = "client") =>
          \A k \in 1..Len(last_df') :
              k # last_fail'[1] =>
                  \E r \in store' : r.pitch_id = NormalizeRow(last_df'[k]).pitch_id]_vars

\* A readable checkpoint lists as complete only dates whose records were
\* fetched and stored (or that had none).
CheckpointListsOnlyCommitted ==
    \A d \in 1..NumDates : FileLists(file, "completed_dates", d) => d \in committed

\* C1: a run interrupted at any point (killed or cancelled) leaves the store
\* and the checkpoint such that no date is listed complete without its
\* records committed, and the next run, started with upstream and database
\* reachable, schedules again every date that was in progress or whose
\* outcome was not yet saved when the run was interrupted.
C1_InterruptedRunRecovers ==
    [][ /\ CheckpointListsOnlyCommitted'
        /\ \A w \in Procs :
              (pc[w] \in {"killed", "cancelled"} /\ pc'[w] # pc[w] /\ outage = "none")
              => /\ pc'[w] # "crashed"
                 /\ (lost[w].in_progress \cup lost[w].unsaved) \subseteq Range(all_dates'[w])
      ]_vars

\* The dates a run of today must process given the checkpoint f: those of
\* season_start..min(season end, today) that f does not list as complete.
DatesToProcess(f) ==
    {d \in season_start..Min(SeasonEndDate, today) : ~FileLists(f, "completed_dates", d)}

IsAscending(s) == \A j \in 1..Len(s), k \in 1..Len(s) : j < k => s[j] < s[k]

\* A readable document, or no file.
Readable(f) == f.kind \in {"absent", "json"}

\* C2: a run of the season backfill that starts on a readable checkpoint,
\* with upstream and database reachable, schedules exactly the dates of
\* season_start..min(season end, today) that the checkpoint does not list
\* as complete, dates it lists as failed included, in ascending order and
\* without repetition.
C2_ResumeSchedule ==
    [][\A w \in Procs :
          (runs' = runs + 1 /\ program'[w] = "complete_season_backfill"
              /\ Readable(file) /\ outage = "none")
          => /\ pc'[w] # "crashed"
             /\ Range(all_dates'[w]) = DatesToProcess(file)
             /\ IsAscending(all_dates'[w])]_vars

\* C4: collect_single_date makes at most max_retries + 1 attempts for one
\* date, whatever made the attempts fail (an exception or a validation
\* that is not complete), and it returns failure only after that many
\* attempts.
C4_RetryBound ==
    \A w \in Procs :
        /\ attempts[w] <= max_retries + 1
        /\ retry_count[w] <= max_retries
        /\ (pc[w] = "returned" /\ ~success[w]) => attempts[w] = max_retries + 1

\* A date was fetched four times during an upstream outage, each attempt
\* raised, and failure was returned.
C4_Witness ==
    /\ pc[1] = "returned" /\ ~success[1]
    /\ outage = "upstream"
    /\ retry_count[1] = max_retries
    /\ attempts[1] = max_retries + 1

\* The dates of positions 1..n of the schedule that the run completed.
CompletedUpTo(w, n) ==
    {all_dates[w][j] : j \in 1..Min(n, Len(all_dates[w]))} \cap reached[w].completed

\* The position of the last date a periodic save of the run covers: the
\* last multiple of SaveEvery among the positions the run has passed.
LastSaved(w) == SaveEvery * ((i[w] - 1) \div SaveEvery)

\* C5 as stated: when the worker begins fetching a date, the checkpoint file
\* lists every date the run completed before it.
C5_FileListsBeforeNextFetch ==
    \A w \in Procs :
        pc[w] = "fetch" =>
            \A d \in CompletedUpTo(w, i[w] - 1) : FileLists(file, "completed_dates", d)

\* C5, amended: when the worker begins fetching a date, its in-memory
\* progress lists every date the run completed before it; the checkpoint
\* file lists those up to the last tenth position of the schedule, and
\* every completed date once the run has returned.
C5_SavedEveryTenthDate ==
    \A w \in Procs :
        /\ pc[w] \in {"fetch", "record"} =>
              /\ \A d \in CompletedUpTo(w, i[w] - 1) :
                    Contains(progress[w].completed_dates, DateStr(d))
              /\ \A d \in CompletedUpTo(w, LastSaved(w)) :
                    FileLists(file, "completed_dates", d)
        /\ pc[w] = "done" =>
              \A d \in reached[w].completed : FileLists(file, "completed_dates", d)

\* The worker fetches the eleventh date of its schedule, and the file lists
\* the ten dates the run completed before it.
C5_Witness ==
    /\ pc[1] = "fetch" /\ i[1] = SaveEvery + 1
    /\ Cardinality(CompletedUpTo(1, SaveEvery)) = SaveEvery
    /\ \A d \in CompletedUpTo(1, SaveEvery) : FileLists(file, "completed_dates", d)

\* C6: at every instant the progress file holds a complete checkpoint
\* document, the previous one or the new one, never an empty or truncated
\* one.
C6_CheckpointNeverTruncated == Readable(file)

\* C7: a cancelled run stops scheduling dates and persists the checkpoint
\* before the process exits: when the process has exited, the file is
\* readable and lists the outcome of every date the run processed.
C7_CancelPersistsCheckpoint ==
    \A w \in Procs :
        pc[w] = "cancelled" => Readable(file) /\ lost[w].unsaved = {}

\* No result of the validation pass is an error result.
NoValidationError ==
    /\ \A k \in DOMAIN validations : validations[k].status # "error"
    /\ \A k \in DOMAIN player_validations : player_validations[k].status # "error"

\* C8: a season with an off day and days with records, no file at the start
\* and no failing call: one run of the season backfill returns with every
\* date's records stored and every date listed complete in the file, and a
\* validation pass that follows, finding every key player's records
\* stored, writes a report whose status is COMPLETE.
C8_EndToEndComplete ==
    /\ (/\ runs = 1 /\ program[1] = "complete_season_backfill"
        /\ pc[1] \in Resting /\ outage = "none")
       => /\ pc[1] = "done"
          /\ \A d \in season_start..season_end[1] :
                /\ CountByDate(store, d) = Len(UpstreamData(d))
                /\ FileLists(file, "completed_dates", d)
    /\ (/\ val_pc \in {"done", "crashed"} /\ outage = "none" /\ NoValidationError
        /\ \A k \in DOMAIN player_validations :
              player_validations[k].actual_records = player_validations[k].expected_records)
       => /\ val_pc = "done"
          /\ report_file.validation_status = "COMPLETE"

\* C9: a date whose batch has one record with an unparsable date, upstream
\* and database reachable throughout: when collect_single_date returns, the
\* stored count for the date is one less than the batch size and the date
\* is complete, at the first attempt.
C9_PartialBatchComplete ==
    [][\A w \in Procs :
          (/\ pc[w] = "validate" /\ pc'[w] = "returned"
           /\ TargetDate(w) \in PartialDays /\ outage = "none")
          => /\ CountByDate(store', TargetDate(w)) = Len(UpstreamData(TargetDate(w))) - 1
             /\ success'[w]
             /\ attempts'[w] = 1]_vars

\* The completeness percentage of a result, against its counts (a no_games
\* result of the validator has no counts: both are 0).
CompletenessAsClaimed(v) ==
    "completeness" \in DOMAIN v =>
        LET expected == IF "expected_records" \in DOMAIN v THEN v.expected_records ELSE 0
            actual == IF "actual_records" \in DOMAIN v THEN v.actual_records ELSE 0
        IN  /\ actual = expected => v.completeness = 10000
            /\ (actual = 0 /\ expected > 0) => v.completeness = 0
            /\ expected = 0 => v.completeness = 10000

\* C10: for date and entity validation alike, completeness is 100 when
\* actual equals expected, 0 when actual is 0 and expected is positive, and
\* 100 when expected is 0.
C10_CompletenessMath ==
    /\ \A k \in DOMAIN validations : CompletenessAsClaimed(validations[k])
    /\ \A k \in DOMAIN player_validations : CompletenessAsClaimed(player_validations[k])
    /\ \A d \in season_start..today : CompletenessAsClaimed(ValidateDateCollection(store, d))

\* The validation pass has computed its summary.
SummaryComputed == val_pc \in {"done", "crashed"}

\* C11: the overall status that a validation pass computes is COMPLETE
\* exactly when every sampled date has a result that is complete or no data
\* and every key player has a result that is complete; sampled off days do
\* not make an otherwise complete validation INCOMPLETE.
C11_StatusIffThresholdsMet ==
    SummaryComputed =>
        (report.validation_status = "COMPLETE"
            <=> /\ Len(validations) = Min(num_samples, val_season_end - season_start + 1)
                /\ \A k \in DOMAIN validations :
                      validations[k].status \in {"complete", "no_games"}
                /\ Len(player_validations) = Len(key_players)
                /\ \A k \in DOMAIN player_validations :
                      player_validations[k].status = "complete")

\* The status the classification rule gives for counts and a threshold in
\* tenths of a percent: no data, complete from the threshold on, incomplete
\* strictly between 0 and the threshold (the rule names no status for 0).
ClassifiedAsClaimed(v, tenths) ==
    \/ v.status = "error"
    \/ LET expected == IF "expected_records" \in DOMAIN v THEN v.expected_records ELSE 0
           actual == IF "actual_records" \in DOMAIN v THEN v.actual_records ELSE 0
       IN  /\ expected = 0 => v.status = "no_games"
           /\ (expected > 0 /\ actual * 1000 >= tenths * expected) => v.status = "complete"
           /\ (expected > 0 /\ actual > 0 /\ actual * 1000 < tenths * expected)
                 => v.status = "incomplete"

\* C12: every sampled date and every key player gets exactly one result,
\* and its status follows the classification rule: no data when expected is
\* 0, complete when the percentage reaches the threshold (99.5 for a date,
\* 95.0 for a player), incomplete when it is above 0 and below the
\* threshold, error when the upstream call failed.
C12_ResultClassification ==
    /\ val_pc \in {"players", "report", "done", "crashed"} =>
          /\ Len(validations) = Min(num_samples, val_season_end - season_start + 1)
          /\ \A k \in DOMAIN validations : ClassifiedAsClaimed(validations[k], DateThreshold)
    /\ val_pc \in {"report", "done", "crashed"} =>
          /\ Len(player_validations) = Len(key_players)
          /\ \A k \in DOMAIN player_validations :
                ClassifiedAsClaimed(player_validations[k], PlayerThreshold)

\* The date half of the rule, for the results that exist.
DateResultsClassified ==
    \A k \in DOMAIN validations : ClassifiedAsClaimed(validations[k], DateThreshold)

\* C13: a process that has ended has exit status 0 exactly when its overall
\* status is COMPLETE: the validation process when its summary says
\* COMPLETE, a backfill process when it returned a summary without a failed
\* date; a process ended by an uncaught exception has a non-zero status.
C13_ExitStatusReflectsReport ==
    /\ SummaryComputed => (val_exit = 0 <=> report.validation_status = "COMPLETE")
    /\ \A w \in Procs :
          /\ pc[w] \in {"done", "refused"} =>
                (exit_code[w] = 0 <=> (pc[w] = "done" /\ reached[w].failed = {}))
          /\ pc[w] = "crashed" => exit_code[w] # 0

\* The bookkeeping of failed dates within a run and in the file of a run
\* that returned: a failed date is listed as failed and not as complete, a
\* completed date as complete and not as failed.
FailedDatesRecorded ==
    \A w \in Procs :
        /\ pc[w] \in Running =>
              /\ \A d \in reached[w].failed :
                    /\ Contains(progress[w].failed_dates, DateStr(d))
                    /\ ~Contains(progress[w].completed_dates, DateStr(d))
              /\ \A d \in reached[w].completed :
                    /\ Contains(progress[w].completed_dates, DateStr(d))
                    /\ ~Contains(progress[w].failed_dates, DateStr(d))
        /\ pc[w] = "done" =>
              /\ \A d \in reached[w].failed :
                    FileLists(file, "failed_dates", d) /\ ~FileLists(file, "completed_dates", d)
              /\ \A d \in reached[w].completed :
                    FileLists(file, "completed_dates", d) /\ ~FileLists(file, "failed_dates", d)

\* A backfill run starts in this step.
RunStarts == runs' = runs + 1

\* C14: a date whose attempts are exhausted is in the file's failed list
\* when the run returns; every later run, started with upstream and
\* database reachable, schedules every date that the file of a returned run
\* listed as failed and that no run has completed since; a date that
\* succeeds is added to the completed list and removed from the failed list.
C14_FailedDatesRetried ==
    [][ /\ FailedDatesRecorded'
        /\ \A w \in Procs :
              (RunStarts /\ program'[w] # "none" /\ outage = "none")
              => failed_pending \subseteq Range(all_dates'[w])
      ]_vars

\* The rescheduling half of C14 for runs of the emergency backfill that
\* find a readable file.
FailedDatesRetriedWhenReadable ==
    [][ \A w \in Procs :
          (RunStarts /\ program'[w] = "emergency_backfill" /\ outage = "none"
              /\ Readable(file))
          => failed_pending \subseteq Range(all_dates'[w])
      ]_vars

EmptyDateMarkedComplete ==
    \A w \in Procs :
        (pc[w] \in Running /\ ~UpstreamRaises(outage)) =>
            \A d \in reached[w].completed \cup reached[w].failed :
                UpstreamData(d) = <<>>
                => /\ d \in reached[w].completed
                   /\ Contains(progress[w].completed_dates, DateStr(d))
                   /\ ~Contains(progress[w].failed_dates, DateStr(d))

\* ------------------------------------------------ two concurrent backfills
\* Two invocations of the scripts against the same store and progress file,
\* with upstream and database reachable.
InitTwo == Init

NextTwo == Backfill(1) \/ Backfill(2)

SpecTwo == InitTwo /\ [][NextTwo]_vars

\* The date a process is working on, if any.
Processing(w) ==
    IF pc[w] \in {"fetch", "record"} THEN {TargetDate(w)} ELSE {}

\* C16: no two backfill processes work on the same date at the same time.
C16_NoDateProcessedTwice ==
    \A v \in Procs, w \in Procs : v # w => Processing(v) \cap Processing(w) = {}

\* Every result of the list is an 'error' result.
RECURSIVE AllErrors(_)
AllErrors(results) ==
    results = <<>> \/ (Head(results).status = "error" /\ AllErrors(Tail(results)))

\* C17: per-date failures never abort a run.  A backfill run whose dates
\* have all failed so far goes on to the next date or to its save, and ends
\* only by returning (or by a signal from outside), never by an exception;
\* when it has returned, every date it scheduled is in the saved checkpoint.
\* A validation pass whose sampled upstream calls all failed ends with a
\* written report of status INCOMPLETE.
C17_FailuresNeverAbort ==
    [][/\ \A w \in Procs :
            (pc[w] \in Running /\ reached[w].completed = {})
                => /\ pc'[w] # "crashed"
                   /\ pc'[w] = "done"
                         => /\ reached'[w].failed = Range(all_dates[w])
                            /\ \A d \in reached'[w].failed :
                                   FileLists(file', "failed_dates", d)
       /\ (val_pc = "report" /\ val_pc' # "report"
              /\ validations # <<>> /\ AllErrors(validations))
            => /\ val_pc' = "done"
               /\ report_file'.validation_status = "INCOMPLETE"]_vars

\* The raw date of a stored row is a string that does not parse.
Unparsable(date_value) == date_value[1] = "junk"

\* C18: an unparsable date is an error, not a silent null: no row whose raw
\* date does not parse is in the store with a NULL game_date.
C18_UnparsableDateNotStoredNull ==
    \A r \in store :
        Unparsable(r.statcast_data.game_date) => r.game_date # NoneVal

\* ------------------------------- the store with a batch-level failure
\* The batch-level failures one call of store_statcast_data(df) can meet:
\* none, one while a row is prepared, or one in the commit.
BatchFailures(df) ==
    {<<>>} \cup ((1..Len(df)) \X {"prepare"}) \cup {<<Len(df) + 1, "commit">>}

\* store_statcast_data(df) as collect_statcast_data calls it, the call
\* succeeding or raising at batch level.
StoreBatchRollback ==
    /\ batches < MaxRollbackBatches
    /\ \E df \in BatchesUpTo(MaxBatchLen) :
          \E fail \in BatchFailures(df) :
              /\ store' = StoreStatcastDataFailing(store, df, fail)
              /\ last_df' = df
              /\ last_fail' = fail
    /\ reingested' = FALSE
    /\ batches' = batches + 1
    /\ UNCHANGED <<today, outage, file, procVars, histVars, valVars, obsVars, extVars>>

NextRollback == StoreBatchRollback

SpecRollback == InitStore /\ [][NextRollback]_vars

\* C21: each date-batch is stored in one transaction: when the store
\* operation fails at batch level (outside the per-record skip) the whole
\* batch is rolled back, none of the rows this attempt wrote is visible in
\* the store, and the store is what it was before the attempt.
C21_BatchFailureRollsBack ==
    [][(last_fail' # <<>> /\ last_fail'[2] \in BatchFailureKinds) =>
          store' = store]_vars

\* A batch of two rows failed at batch level after its first row had been
\* written in the transaction, and that row is not in the store, which
\* holds the rows of an earlier batch.
C21_Witness ==
    /\ last_fail # <<>>
    /\ last_fail[2] \in BatchFailureKinds
    /\ last_fail[1] = 2
    /\ Len(last_df) = 2
    /\ store # {}
    /\ \A r \in store : r.pitch_id # NormalizeRow(last_df[1]).pitch_id

\* C22: a store failure for a date is retried like a transient upstream
\* failure: when collect_single_date has returned failure for a date whose
\* batch the store refused, the date was attempted max_retries + 1 times.
C22_StoreFailureRetried ==
    \A w \in Procs :
        (pc[w] = "record" /\ ~success[w] /\ outage = "database")
            => attempts[w] = max_retries + 1

\* C23: a structural error is fatal and is not retried as if it were
\* transient: when an attempt of collect_single_date meets an upstream
\* failure that no retry cures, no further attempt is made for the date.
C23_StructuralErrorFatal ==
    [][\A w \in Procs :
          (pc[w] = "collect" /\ outage = "structural"
              /\ attempts'[w] = attempts[w] + 1)
          => pc'[w] # "collect"]_vars

\* The number of issue strings of the list that are about one date or one
\* player.
IssuesAbout(issues, kind, key) ==
    Cardinality({k \in DOMAIN issues : issues[k][1] = kind /\ issues[k][2] = key})

\* The issues list holds one issue for every result that is not complete
\* (nor no_games, for a date) and none for any other result.
IssuesMatchResults(issues) ==
    /\ \A k \in DOMAIN validations :
          IssuesAbout(issues, "Date", validations[k].date)
              = IF validations[k].status \in {"incomplete", "missing", "error"}
                THEN 1 ELSE 0
    /\ \A k \in DOMAIN player_validations :
          IssuesAbout(issues, "Player", player_validations[k].player_id)
              = IF player_validations[k].status \in {"incomplete", "missing", "error"}
                THEN 1 ELSE 0

\* C24: a validation mismatch is never fatal and always surfaces in the
\* Report: when a validation pass has computed its summary, the report on
\* disk lists exactly one issue for every sampled date or player whose
\* status is incomplete, missing or error, and none for a complete or
\* no-data result.
C24_MismatchSurfacesInReport ==
    SummaryComputed => IssuesMatchResults(report_file.issues)

\* What holds of the issues: the list built in memory matches the results.
IssuesInMemoryMatchResults ==
    SummaryComputed => IssuesMatchResults(report.issues)

\* No element occurs twice in the list.
NoDuplicates(list) ==
    \A j \in DOMAIN list, k \in DOMAIN list : list[j] = list[k] => j = k

\* The two lists of a progress dict are disjoint and duplicate-free.
ListsConsistent(p) ==
    /\ NoDuplicates(p.completed_dates)
    /\ NoDuplicates(p.failed_dates)
    /\ Range(p.completed_dates) \cap Range(p.failed_dates) = {}

\* C25: starting from a checkpoint whose lists are disjoint and
\* duplicate-free, every checkpoint that backfill runs save, whether they
\* end normally or are killed, has completed_dates and failed_dates disjoint
\* and neither list holds a date twice; so has the progress a run keeps in
\* memory.
C25_CheckpointListsConsistent ==
    /\ file.kind = "json" => ListsConsistent(file)
    /\ \A w \in Procs : pc[w] \in Running => ListsConsistent(progress[w])

\* A run has saved a file that lists as complete a date the file it started
\* from listed as failed, and lists dates that failed in the run.
C25_Witness ==
    /\ file.kind = "json"
    /\ FileLists(file, "completed_dates", 2)
    /\ \E d \in 3..NumDates : FileLists(file, "failed_dates", d)

\* The dates that reached a terminal outcome in the run of w and whose
\* outcome the progress file does not hold.
Unsaved(w) == NotInFile(w).unsaved

AllKeysStored(st, df) ==
    \A k \in 1..Len(df) : \E old \in st : old.pitch_id = NormalizeRow(df[k]).pitch_id

\* C27: an upsert on a stored natural key replaces the payload only: every
\* stored row keeps its game_pk, game_date, batter_id and pitcher_id
\* whatever is ingested after it, and a batch whose keys are all stored
\* leaves the count of every date and of every player unchanged, also when
\* its records carry another date or another batter.
C27_UpsertKeepsIndexedFields ==
    [][ /\ \A old \in store : \E r \in store' :
              /\ r.pitch_id = old.pitch_id
              /\ r.game_pk = old.game_pk
              /\ r.game_date = old.game_date
              /\ r.batter_id = old.batter_id
              /\ r.pitcher_id = old.pitcher_id
        /\ AllKeysStored(store, last_df') =>
              /\ \A d \in 1..NumDates : CountByDate(store', d) = CountByDate(store, d)
              /\ \A player_id \in Range(key_players) :
                    CountByEntity(store', player_id, 1, NumDates)
                        = CountByEntity(store, player_id, 1, NumDates)
      ]_vars

\* A stored row was re-ingested with another date and another batter: its
\* payload names a batter and a date its indexed fields do not.
C27_Witness ==
    \E r \in store :
        /\ r.statcast_data.batter # r.batter_id
        /\ r.game_date # NoneVal
        /\ _convert_to_date(r.statcast_data.game_date) # r.game_date

\* ------------------------------------------- the batched season collection
\* POST /api/test/collect-season-statcast: the request arrives with its
\* batch_days (any integer: the parameter is declared "batch_days: int = 7"
\* and never checked), end_date is capped at today, and the while loop is
\* entered or, with no day to collect, the summary is returned.  bad_date
\* is the date for which collector.collect_statcast_data raises.
BatchDaysValues == {-1, 0, 1, 3, default_batch_days}

CollectSeasonStatcast ==
    /\ season_pc = "idle"
    /\ \E n \in BatchDaysValues : batch_days' = n
    /\ collect_end' = Min(SeasonLastDate, today)
    /\ \E d \in {0} \cup (start_date..collect_end') : bad_date' = d
    /\ current_date' = start_date
    /\ season_pc' = IF start_date <= collect_end' THEN "loop" ELSE "done"
    /\ UNCHANGED <<envVars, procVars, histVars, valVars, auxVars, obsVars, batch_count,
                   iterations, attempted, betVars>>

\* The days of range((batch_end - current_date).days + 1), from current_date on.
BatchDays(first, batch_end) == first..batch_end

\* The days of a batch for which collect_statcast_data is called: the for
\* loop stands inside the batch's try, so the day that raises ends it.
DaysAttempted(days, bad) == {d \in days : bad \notin days \/ d <= bad}

\* One iteration of "while current_date <= end_date": batch_end, the days of
\* the batch inside the try, and current_date = batch_end + timedelta(1).
\* current_date + timedelta(days=batch_days-1) stands outside the inner
\* try: below date.min it raises OverflowError, which the outer except
\* turns into HTTP 500.  get_statcast_count is taken to answer.
SeasonBatch ==
    /\ season_pc = "loop"
    /\ iterations < MaxIterations
    /\ iterations' = iterations + 1
    /\ IF current_date + (batch_days - 1) < DateMin
       THEN /\ season_pc' = "failed"
            /\ UNCHANGED <<current_date, batch_count, attempted>>
       ELSE LET batch_end == Min(current_date + (batch_days - 1), collect_end)
                days == BatchDays(current_date, batch_end)
            IN  /\ attempted' = [d \in DOMAIN attempted |->
                                    IF d \in DaysAttempted(days, bad_date)
                                    THEN attempted[d] + 1 ELSE attempted[d]]
                /\ batch_count' = IF bad_date \in days THEN batch_count
                                  ELSE batch_count + 1
                /\ current_date' = batch_end + 1
                /\ season_pc' = IF current_date' <= collect_end THEN "loop" ELSE "done"
    /\ UNCHANGED <<envVars, procVars, histVars, valVars, auxVars, obsVars, batch_days,
                   bad_date, collect_end, betVars>>

NextSeason == CollectSeasonStatcast \/ SeasonBatch

SpecSeason == Init /\ [][NextSeason]_vars

\* C28: in the batched season collection a failure while collecting one date
\* is absorbed locally: when the request has returned, every other date of
\* start_date..end_date, the later dates of the failed date's batch
\* included, was attempted exactly once.
C28_DateFailureAbsorbed ==
    season_pc = "done" =>
        \A d \in start_date..collect_end : d # bad_date => attempted[d] = 1

\* What holds of the batches: a request in which no date fails attempts
\* every date once, and a failed date costs the later dates of its batch
\* only.
DateFailureCostsRestOfBatch ==
    (season_pc = "done" /\ batch_days >= 1) =>
        \A d \in start_date..collect_end :
            /\ attempted[d] <= 1
            /\ attempted[d] = 0 =>
                  /\ bad_date # 0 /\ d > bad_date
                  /\ (d - start_date) \div batch_days = (bad_date - start_date) \div batch_days

\* C29: the batch loop terminates for every batch_days the endpoint
\* accepts, 0 and negative values included: current_date strictly increases
\* on every iteration until it passes end_date.
C29_BatchLoopAdvances ==
    [][iterations' = iterations + 1 => current_date' > current_date]_vars

\* What holds of the loop: it advances whenever batch_days is at least 1.
BatchLoopAdvancesOverPositiveDays ==
    [][(iterations' = iterations + 1 /\ batch_days >= 1)
          => current_date' > current_date]_vars

\* ------------------------------------------------------ the betting service
\* "UPDATE betting_strategies SET total_bets = total_bets + 1, wins = wins +
\* CASE WHEN $1 = 'win' ..." for one strategy row.
AddResult(row, result) ==
    [total_bets |-> row.total_bets + 1,
     wins |-> row.wins + (IF result = "win" THEN 1 ELSE 0),
     losses |-> row.losses + (IF result = "loss" THEN 1 ELSE 0),
     pushes |-> row.pushes + (IF result = "push" THEN 1 ELSE 0)]

\* POST /{bet_id}/settle: the bet is read (404 when there is none), its
\* bet_result and game_status are written whatever they were, and the
\* counters of every strategy mapped to the bet are increased.
SettleBet ==
    /\ settles < MaxSettles
    /\ settles' = settles + 1
    /\ \E bet_id \in BetIds, result \in BetResults :
          /\ bet_result' = [bet_result EXCEPT ![bet_id] = result]
          /\ strategies' = [s \in StrategyIds |->
                               IF s \in bet_strategy_mapping[bet_id]
                               THEN AddResult(strategies[s], result)
                               ELSE strategies[s]]
    /\ UNCHANGED <<envVars, procVars, histVars, valVars, auxVars, obsVars, seasonVars>>

NextBets == SettleBet

SpecBets == Init /\ [][NextBets]_vars

\* The settled bets mapped to a strategy.
SettledBets(s) ==
    {b \in BetIds : bet_result[b] # "pending" /\ s \in bet_strategy_mapping[b]}

\* C30: each bet contributes to the totals of its strategies at most once:
\* after any sequence of settle calls a strategy's total_bets is the number
\* of distinct settled bets mapped to it, and wins + losses + pushes is at
\* most total_bets.
C30_BetCountedOnce ==
    \A s \in StrategyIds :
        /\ strategies[s].total_bets = Cardinality(SettledBets(s))
        /\ strategies[s].wins + strategies[s].losses + strategies[s].pushes
              <= strategies[s].total_bets

\* What holds of the counters: every settle call is counted, so the
\* outcomes never exceed total_bets, and total_bets is at least the number
\* of settled bets.
EverySettleCallCounted ==
    \A s \in StrategyIds :
        /\ strategies[s].total_bets >= Cardinality(SettledBets(s))
        /\ strategies[s].wins + strategies[s].losses + strategies[s].pushes
              <= strategies[s].total_bets

=============================================================================
